---- MODULE Spec2Model ----
(***************************************************************************)
(* Model of cachesim.c: a set-associative cache simulator that replays one *)
(* memory-access trace through two Cache instances in lock step, one with  *)
(* next-block prefetching disabled and one with it enabled.                *)
(*                                                                         *)
(* A Cache is a record carrying the fields of the C struct.  Two further   *)
(* fields are history bookkeeping that the C code does not have:           *)
(*   order : per set, the line indices in the order they were last filled  *)
(*           by load_block (oldest first);                                 *)
(*   loads : the load_block calls made for the current trace record, each  *)
(*           with the set, the chosen line, and the lines array before and *)
(*           after the call;                                               *)
(*   hit_since : per set, the lines hit since the last load_block into the *)
(*           set, most recently hit last.                                  *)
(* Addresses are drawn from 0..MaxAddr, far below 2^64, so the unsigned    *)
(* long arithmetic of the program never wraps inside the model.            *)
(***************************************************************************)
EXTENDS Integers, Sequences, FiniteSets, TLC

\* ---------------------------------------------------------------- bounds
MaxCacheSize == 4
MaxBlockSize == 2
MaxAssocArg == 2
MaxAddr == 4
MaxTrace == 3
MaxLines == 3
MaxAge == 2
DeepAddr == 5
DeepTrace == 6

\* ------------------------------------------------------ program constants
POLICY_FIFO == 0
POLICY_LRU == 1

\* ------------------------------------------------------ bit-level helpers
RECURSIVE BitAnd(_, _)
BitAnd(x, y) ==
    IF x = 0 \/ y = 0 THEN 0
    ELSE (x % 2) * (y % 2) + 2 * BitAnd(x \div 2, y \div 2)

Shr(x, k) == x \div (2 ^ k)

Shl(x, k) == x * (2 ^ k)

is_power_of_two(x) == x # 0 /\ BitAnd(x, x - 1) = 0

RECURSIVE log2_int(_)
log2_int(x) == IF x > 1 THEN 1 + log2_int(Shr(x, 1)) ELSE 0

\* ------------------------------------------------------------ the cache
NULL == [null |-> TRUE]

CacheLine == [valid |-> 0, tag |-> 0, age |-> 0]

create_cache(cache_size, associativity, block_size, policy) ==
    LET sets_num == cache_size \div (associativity * block_size)
    IN  [ sets_num   |-> sets_num,
          set_lines  |-> associativity,
          block_size |-> block_size,
          block_bits |-> log2_int(block_size),
          set_bits   |-> log2_int(sets_num),
          policy     |-> policy,
          lines      |-> [i \in 0 .. sets_num - 1 |->
                            [j \in 0 .. associativity - 1 |-> CacheLine]],
          hits |-> 0, misses |-> 0, reads |-> 0, writes |-> 0,
          order      |-> [i \in 0 .. sets_num - 1 |-> << >>],
          loads      |-> << >>,
          hit_since  |-> [i \in 0 .. sets_num - 1 |-> << >>] ]

get_block_id(cache, address) == Shr(address, cache.block_bits)

get_set_index(cache, address) ==
    LET block_id == get_block_id(cache, address)
        mask == IF cache.set_bits = 0 THEN 0 ELSE Shl(1, cache.set_bits) - 1
    IN  BitAnd(block_id, mask)

get_tag_without_block_bits(cache, address) == Shr(address, cache.set_bits)

get_tag(cache, address) == Shr(address, cache.block_bits + cache.set_bits)

\* The scan of find_line: index of the first valid line with the tag, or -1.
RECURSIVE find_scan(_, _, _, _)
find_scan(set, tag, i, n) ==
    IF i >= n THEN -1
    ELSE IF set[i].valid # 0 /\ set[i].tag = tag THEN i
    ELSE find_scan(set, tag, i + 1, n)

find_line(cache, address) ==
    find_scan(cache.lines[get_set_index(cache, address)],
              get_tag(cache, address), 0, cache.set_lines)

update_lru_on_access_never(cache, set_idx, line_idx) == cache

update_lru_on_access_any_policy(cache, set_idx, line_idx) ==
    [cache EXCEPT !.lines[set_idx] =
        [i \in DOMAIN @ |->
            IF @[i].valid = 0 THEN @[i]
            ELSE IF i = line_idx THEN [@[i] EXCEPT !.age = 0]
            ELSE [@[i] EXCEPT !.age = @ + 1]]]

\* The accessed line's age is reset; the other lines are not aged.
update_lru_on_access_reset_only(cache, set_idx, line_idx) ==
    IF cache.policy # POLICY_LRU THEN cache
    ELSE [cache EXCEPT !.lines[set_idx][line_idx].age = 0]

update_lru_on_access(cache, set_idx, line_idx) ==
    IF cache.policy # POLICY_LRU THEN cache
    ELSE [cache EXCEPT !.lines[set_idx] =
            [i \in DOMAIN @ |->
                IF @[i].valid = 0 THEN @[i]
                ELSE IF i = line_idx THEN [@[i] EXCEPT !.age = 0]
                ELSE [@[i] EXCEPT !.age = @ + 1]]]

\* The scan with > in place of >=.
RECURSIVE replace_scan_strict(_, _, _, _, _)
replace_scan_strict(set, i, n, candidate, max_age) ==
    IF i >= n THEN candidate
    ELSE IF set[i].valid = 0 THEN i
    ELSE IF set[i].age > max_age
         THEN replace_scan_strict(set, i + 1, n, i, set[i].age)
         ELSE replace_scan_strict(set, i + 1, n, candidate, max_age)

\* The scan without the break at an invalid line.
RECURSIVE replace_scan_no_break(_, _, _, _, _)
replace_scan_no_break(set, i, n, candidate, max_age) ==
    IF i >= n THEN candidate
    ELSE IF set[i].valid = 0
         THEN replace_scan_no_break(set, i + 1, n, i, max_age)
    ELSE IF set[i].age >= max_age
         THEN replace_scan_no_break(set, i + 1, n, i, set[i].age)
         ELSE replace_scan_no_break(set, i + 1, n, candidate, max_age)

\* The first loop of load_block: first invalid line, else the line whose age
\* is >= the running maximum (the last such line in index order).
RECURSIVE replace_scan(_, _, _, _, _)
replace_scan(set, i, n, replace_idx, max_age) ==
    IF i >= n THEN replace_idx
    ELSE IF set[i].valid = 0 THEN i
    ELSE IF set[i].age >= max_age
         THEN replace_scan(set, i + 1, n, i, set[i].age)
         ELSE replace_scan(set, i + 1, n, replace_idx, max_age)

replace_idx(cache, set_idx) ==
    replace_scan(cache.lines[set_idx], 0, cache.set_lines, -1, 0)

RemoveFrom(seq, x) == SelectSeq(seq, LAMBDA y : y # x)

\* History only: line_idx of set_idx was hit.
Hit(cache, set_idx, line_idx) ==
    [cache EXCEPT !.hit_since[set_idx] = Append(RemoveFrom(@, line_idx), line_idx)]

SetFull(set) == \A i \in DOMAIN set : set[i].valid # 0

\* load_block without the age++ of the other valid lines.
load_block_without_aging(cache, address) ==
    LET set_idx == get_set_index(cache, address)
        tag == get_tag(cache, address)
        idx == replace_idx(cache, set_idx)
        old == cache.lines[set_idx]
        new == [i \in DOMAIN old |->
                  IF i = idx THEN [valid |-> 1, tag |-> tag, age |-> 0]
                  ELSE old[i]]
    IN  [cache EXCEPT
            !.lines[set_idx] = new,
            !.order[set_idx] = Append(RemoveFrom(@, idx), idx),
            !.hit_since[set_idx] = << >>,
            !.loads = Append(@, [ set    |-> set_idx,
                                  idx    |-> idx,
                                  tag    |-> tag,
                                  full   |-> SetFull(old),
                                  before |-> cache.lines,
                                  after  |-> [cache.lines EXCEPT ![set_idx] = new],
                                  oldest |-> IF cache.order[set_idx] = << >>
                                             THEN -1
                                             ELSE Head(cache.order[set_idx]) ])]

load_block(cache, address) ==
    LET set_idx == get_set_index(cache, address)
        tag == get_tag(cache, address)
        idx == replace_idx(cache, set_idx)
        old == cache.lines[set_idx]
        new == [i \in DOMAIN old |->
                  IF i = idx THEN [valid |-> 1, tag |-> tag, age |-> 0]
                  ELSE IF old[i].valid = 0 THEN old[i]
                  ELSE [old[i] EXCEPT !.age = @ + 1]]
    IN  [cache EXCEPT
            !.lines[set_idx] = new,
            !.order[set_idx] = Append(RemoveFrom(@, idx), idx),
            !.hit_since[set_idx] = << >>,
            !.loads = Append(@, [ set    |-> set_idx,
                                  idx    |-> idx,
                                  tag    |-> tag,
                                  full   |-> SetFull(old),
                                  before |-> cache.lines,
                                  after  |-> [cache.lines EXCEPT ![set_idx] = new],
                                  oldest |-> IF cache.order[set_idx] = << >>
                                             THEN -1
                                             ELSE Head(cache.order[set_idx]) ])]

prefetch_next_always_loads(cache, address) ==
    LET block_id == get_block_id(cache, address)
        next_address == Shl(block_id + 1, cache.block_bits)
    IN  load_block([cache EXCEPT !.reads = @ + 1], next_address)

prefetch_next_counts_miss(cache, address) ==
    LET block_id == get_block_id(cache, address)
        next_address == Shl(block_id + 1, cache.block_bits)
        line_idx == find_line(cache, next_address)
    IN  IF line_idx = -1
        THEN load_block([cache EXCEPT !.misses = @ + 1, !.reads = @ + 1],
                        next_address)
        ELSE cache

prefetch_next_no_read_count(cache, address) ==
    LET block_id == get_block_id(cache, address)
        next_address == Shl(block_id + 1, cache.block_bits)
        line_idx == find_line(cache, next_address)
    IN  IF line_idx = -1 THEN load_block(cache, next_address) ELSE cache

\* A prefetch load that goes on to prefetch the block after it.
prefetch_next_chained(cache, address) ==
    LET block_id == get_block_id(cache, address)
        next_address == Shl(block_id + 1, cache.block_bits)
        after_next == Shl(block_id + 2, cache.block_bits)
        line_idx == find_line(cache, next_address)
    IN  IF line_idx = -1
        THEN LET loaded == load_block([cache EXCEPT !.reads = @ + 1],
                                      next_address)
             IN  IF find_line(loaded, after_next) = -1
                 THEN load_block([loaded EXCEPT !.reads = @ + 1], after_next)
                 ELSE loaded
        ELSE cache

\* A prefetch lookup that hits is treated as an access of the line.
prefetch_next_touches_present(cache, address) ==
    LET block_id == get_block_id(cache, address)
        next_address == Shl(block_id + 1, cache.block_bits)
        line_idx == find_line(cache, next_address)
    IN  IF line_idx = -1
        THEN load_block([cache EXCEPT !.reads = @ + 1], next_address)
        ELSE update_lru_on_access(cache, get_set_index(cache, next_address),
                                  line_idx)

prefetch_next(cache, address) ==
    LET block_id == get_block_id(cache, address)
        next_address == Shl(block_id + 1, cache.block_bits)
        line_idx == find_line(cache, next_address)
    IN  IF line_idx = -1
        THEN load_block([cache EXCEPT !.reads = @ + 1], next_address)
        ELSE cache

simulate_read_prefetch_on_hit(cache, address, prefetch) ==
    LET set_idx == get_set_index(cache, address)
        line_idx == find_line(cache, address)
        accessed ==
            IF line_idx # -1
            THEN update_lru_on_access(Hit([cache EXCEPT !.hits = @ + 1],
                                          set_idx, line_idx),
                                      set_idx, line_idx)
            ELSE load_block([cache EXCEPT !.misses = @ + 1, !.reads = @ + 1],
                            address)
    IN  IF prefetch # 0 THEN prefetch_next(accessed, address) ELSE accessed

simulate_read(cache, address, prefetch) ==
    LET set_idx == get_set_index(cache, address)
        line_idx == find_line(cache, address)
    IN  IF line_idx # -1
        THEN update_lru_on_access(Hit([cache EXCEPT !.hits = @ + 1],
                                      set_idx, line_idx),
                                  set_idx, line_idx)
        ELSE LET loaded == load_block([cache EXCEPT !.misses = @ + 1,
                                                    !.reads = @ + 1],
                                      address)
             IN  IF prefetch # 0 THEN prefetch_next(loaded, address)
                 ELSE loaded

simulate_write_miss_without_write(cache, address, prefetch) ==
    LET set_idx == get_set_index(cache, address)
        line_idx == find_line(cache, address)
    IN  IF line_idx # -1
        THEN update_lru_on_access(Hit([cache EXCEPT !.hits = @ + 1,
                                                    !.writes = @ + 1],
                                      set_idx, line_idx),
                                  set_idx, line_idx)
        ELSE LET loaded == load_block([cache EXCEPT !.misses = @ + 1,
                                                    !.reads = @ + 1],
                                      address)
             IN  IF prefetch # 0 THEN prefetch_next(loaded, address)
                 ELSE loaded

simulate_write(cache, address, prefetch) ==
    LET set_idx == get_set_index(cache, address)
        line_idx == find_line(cache, address)
    IN  IF line_idx # -1
        THEN update_lru_on_access(Hit([cache EXCEPT !.hits = @ + 1,
                                                    !.writes = @ + 1],
                                      set_idx, line_idx),
                                  set_idx, line_idx)
        ELSE LET loaded == load_block([cache EXCEPT !.misses = @ + 1,
                                                    !.reads = @ + 1],
                                      address)
                 written == [loaded EXCEPT !.writes = @ + 1]
             IN  IF prefetch # 0 THEN prefetch_next(written, address)
                 ELSE written

\* ------------------------------------------------------------ the state
VARIABLES
    pc,                 \* where main is
    err,                \* the error message main printed before exiting, or ""
    args,               \* argv: cache_size, assoc_str, policy_str, block_size
    policy,             \* main's local: parsed policy (-1 before parsing)
    associativity,      \* main's local: parsed associativity (-1 before)
    cache_no_prefetch,  \* main's local: Cache run with prefetch = 0
    cache_prefetch,     \* main's local: Cache run with prefetch = 1
    pos,                \* trace records consumed by the read loop
    nacc,               \* R/W records handed to simulate_read/simulate_write
    nwrites,            \* W records handed to simulate_write
    last                \* the last trace record consumed

vars == << pc, err, args, policy, associativity, cache_no_prefetch,
           cache_prefetch, pos, nacc, nwrites, last >>

AssocStrs ==
    { [kind |-> "direct", n |-> 0], [kind |-> "assoc", n |-> 0],
      [kind |-> "other", n |-> 0] }
    \cup { [kind |-> "assoc:", n |-> k] : k \in 0 .. MaxAssocArg }

PolicyStrs == { "fifo", "lru", "other" }

Addresses == 0 .. MaxAddr

NoRecord == [op |-> "none", address |-> 0]

\* The bounded argument vectors, plus the geometry of the worked scenarios:
\* cachesim 32 direct <policy> 4 <trace>.
BoundedArgs ==
    [ cache_size : 0 .. MaxCacheSize,
      assoc_str  : AssocStrs,
      policy_str : PolicyStrs,
      block_size : 0 .. MaxBlockSize ]

ScenarioArgs ==
    { [ cache_size |-> 32, assoc_str |-> [kind |-> "direct", n |-> 0],
        policy_str |-> p, block_size |-> 4 ] : p \in { "fifo", "lru" } }

Init ==
    /\ pc = "parse"
    /\ err = ""
    /\ args \in BoundedArgs \cup ScenarioArgs
    /\ policy = -1
    /\ associativity = -1
    /\ cache_no_prefetch = NULL
    /\ cache_prefetch = NULL
    /\ pos = 0
    /\ nacc = 0
    /\ nwrites = 0
    /\ last = NoRecord

\* main, lines 274-278: the power-of-two checks.
CheckPowersOfTwo ==
    /\ pc = "parse"
    /\ IF ~is_power_of_two(args.cache_size) \/ ~is_power_of_two(args.block_size)
       THEN pc' = "exit1" /\ err' = "Cache size and block size must be powers of 2"
       ELSE pc' = "policy" /\ err' = err
    /\ UNCHANGED << args, policy, associativity, cache_no_prefetch,
                    cache_prefetch, pos, nacc, nwrites, last >>

\* main, lines 280-289: the replacement policy.
ParsePolicy ==
    /\ pc = "policy"
    /\ IF args.policy_str = "fifo"
       THEN pc' = "assoc" /\ policy' = POLICY_FIFO /\ err' = err
       ELSE IF args.policy_str = "lru"
       THEN pc' = "assoc" /\ policy' = POLICY_LRU /\ err' = err
       ELSE pc' = "exit1" /\ policy' = policy
            /\ err' = "Invalid replacement policy"
    /\ UNCHANGED << args, associativity, cache_no_prefetch, cache_prefetch,
                    pos, nacc, nwrites, last >>

\* main, lines 291-307: the associativity.
ParseAssociativity ==
    /\ pc = "assoc"
    /\ LET s == args.assoc_str IN
       IF s.kind = "direct"
       THEN pc' = "create" /\ associativity' = 1 /\ err' = err
       ELSE IF s.kind = "assoc"
       THEN /\ pc' = "create" /\ err' = err
            /\ associativity' = args.cache_size \div args.block_size
       ELSE IF s.kind = "assoc:"
       THEN IF ~is_power_of_two(s.n)
            THEN /\ pc' = "exit1" /\ associativity' = s.n
                 /\ err' = "Associativity must be a power of 2"
            ELSE pc' = "create" /\ associativity' = s.n /\ err' = err
       ELSE /\ pc' = "exit1" /\ associativity' = associativity
            /\ err' = "Invalid associativity"
    /\ UNCHANGED << args, policy, cache_no_prefetch, cache_prefetch,
                    pos, nacc, nwrites, last >>

\* main, lines 310-311, with create_cache: the Cache struct is allocated
\* (line 51) before sets_num is derived (line 61).  A zero divisor at line 61
\* is undefined behaviour: the process traps or goes on in an unknown state.
CreateCachesDivideByZero ==
    /\ pc = "create"
    /\ associativity * args.block_size = 0
    /\ pc' \in { "crashed", "undefined" }
    /\ cache_no_prefetch' = [allocated |-> TRUE]
    /\ UNCHANGED << err, args, policy, associativity, cache_prefetch,
                    pos, nacc, nwrites, last >>

\* malloc(0) at line 72 (sets_num = 0) may return a null pointer.
CreateCachesNullArray ==
    /\ pc = "create"
    /\ associativity * args.block_size # 0
    /\ args.cache_size \div (associativity * args.block_size) = 0
    /\ pc' = "exit1"
    /\ err' = "malloc failed"
    /\ cache_no_prefetch' =
          create_cache(args.cache_size, associativity, args.block_size, policy)
    /\ UNCHANGED << args, policy, associativity, cache_prefetch,
                    pos, nacc, nwrites, last >>

CreateCaches ==
    /\ pc = "create"
    /\ associativity * args.block_size # 0
    /\ pc' = "open"
    /\ cache_no_prefetch' =
          create_cache(args.cache_size, associativity, args.block_size, policy)
    /\ cache_prefetch' =
          create_cache(args.cache_size, associativity, args.block_size, policy)
    /\ UNCHANGED << err, args, policy, associativity, pos, nacc, nwrites, last >>

\* main, lines 313-320: fopen.
OpenTrace ==
    /\ pc = "open"
    /\ pc' = "loop"
    /\ UNCHANGED << err, args, policy, associativity, cache_no_prefetch,
                    cache_prefetch, pos, nacc, nwrites, last >>

OpenTraceFails ==
    /\ pc = "open"
    /\ pc' = "exit1"
    /\ err' = "Cannot open trace file"
    /\ cache_no_prefetch' = NULL
    /\ cache_prefetch' = NULL
    /\ UNCHANGED << args, policy, associativity, pos, nacc, nwrites, last >>

HasSets == pc \in { "open", "loop", "done" } /\ cache_no_prefetch.sets_num >= 1

Fresh(cache) == [cache EXCEPT !.loads = << >>]

\* main, lines 331-333: an R record.
ReadRecord(address) ==
    /\ pc = "loop" /\ HasSets /\ pos < MaxTrace
    /\ cache_no_prefetch' = simulate_read(Fresh(cache_no_prefetch), address, 0)
    /\ cache_prefetch' = simulate_read(Fresh(cache_prefetch), address, 1)
    /\ pos' = pos + 1
    /\ nacc' = nacc + 1
    /\ last' = [op |-> "R", address |-> address]
    /\ UNCHANGED << pc, err, args, policy, associativity, nwrites >>

\* main, lines 334-336: a W record.
WriteRecord(address) ==
    /\ pc = "loop" /\ HasSets /\ pos < MaxTrace
    /\ cache_no_prefetch' = simulate_write(Fresh(cache_no_prefetch), address, 0)
    /\ cache_prefetch' = simulate_write(Fresh(cache_prefetch), address, 1)
    /\ pos' = pos + 1
    /\ nacc' = nacc + 1
    /\ nwrites' = nwrites + 1
    /\ last' = [op |-> "W", address |-> address]
    /\ UNCHANGED << pc, err, args, policy, associativity >>

\* An R/W record against a cache with sets_num = 0: find_line indexes the
\* empty lines array, which is undefined behaviour.
AccessWithoutSets ==
    /\ pc = "loop" /\ ~HasSets /\ pos < MaxTrace
    /\ pc' \in { "crashed", "undefined" }
    /\ UNCHANGED << err, args, policy, associativity, cache_no_prefetch,
                    cache_prefetch, pos, nacc, nwrites, last >>

\* The record is handed to simulate_read although it did not parse.
MalformedRecord_forwarded ==
    /\ pc = "loop" /\ HasSets /\ pos < MaxTrace
    /\ pos' = pos + 1
    /\ last' = [op |-> "malformed", address |-> 0]
    /\ cache_no_prefetch' = simulate_read(Fresh(cache_no_prefetch), 0, 0)
    /\ cache_prefetch' = simulate_read(Fresh(cache_prefetch), 0, 1)
    /\ UNCHANGED << pc, err, args, policy, associativity, nacc, nwrites >>

\* main, lines 330-338: sscanf does not return 3, or op is neither R nor W.
MalformedRecord ==
    /\ pc = "loop" /\ pos < MaxTrace
    /\ pos' = pos + 1
    /\ last' = [op |-> "malformed", address |-> 0]
    /\ UNCHANGED << pc, err, args, policy, associativity, cache_no_prefetch,
                    cache_prefetch, nacc, nwrites >>

\* main, line 325: the #eof record ends the loop; then lines 340-349.
SentinelRecord ==
    /\ pc = "loop" /\ pos < MaxTrace
    /\ pc' = "done"
    /\ pos' = pos + 1
    /\ last' = [op |-> "#eof", address |-> 0]
    /\ UNCHANGED << err, args, policy, associativity, cache_no_prefetch,
                    cache_prefetch, nacc, nwrites >>

\* main, line 324: fgets returns NULL at the end of the file; then lines
\* 340-349.
EndOfTrace ==
    /\ pc = "loop"
    /\ pc' = "done"
    /\ UNCHANGED << err, args, policy, associativity, cache_no_prefetch,
                    cache_prefetch, pos, nacc, nwrites, last >>

Next ==
    \/ CheckPowersOfTwo
    \/ ParsePolicy
    \/ ParseAssociativity
    \/ CreateCaches
    \/ CreateCachesDivideByZero
    \/ CreateCachesNullArray
    \/ OpenTrace
    \/ OpenTraceFails
    \/ \E address \in Addresses : ReadRecord(address)
    \/ \E address \in Addresses : WriteRecord(address)
    \/ AccessWithoutSets
    \/ MalformedRecord
    \/ SentinelRecord
    \/ EndOfTrace

Spec == Init /\ [][Next]_vars

\* ------------------------------------------------- load_block on any set
\* load_block as a function of the set it is given: one set of up to MaxLines
\* lines whose valid bits and ages are drawn freely (tags are distinct and
\* differ from every tag an address in Addresses has).
ScanSets ==
    UNION { [ 0 .. n - 1 -> [ valid : { 0, 1 }, age : 0 .. MaxAge ] ] :
            n \in 1 .. MaxLines }

ScanCache(drawn, p) ==
    LET n == Cardinality(DOMAIN drawn)
    IN  [ create_cache(n, n, 1, p) EXCEPT
            !.lines[0] = [i \in DOMAIN drawn |->
                            [ valid |-> drawn[i].valid,
                              tag   |-> MaxAddr + 1 + i,
                              age   |-> drawn[i].age ]] ]

ScanInit ==
    /\ pc = "scan"
    /\ err = ""
    /\ args = [ cache_size |-> 0, assoc_str |-> [kind |-> "other", n |-> 0],
                policy_str |-> "other", block_size |-> 0 ]
    /\ policy \in { POLICY_FIFO, POLICY_LRU }
    /\ associativity = -1
    /\ \E drawn \in ScanSets : cache_no_prefetch = ScanCache(drawn, policy)
    /\ cache_prefetch = NULL
    /\ pos = 0
    /\ nacc = 0
    /\ nwrites = 0
    /\ last = NoRecord

ScanLoad(address) ==
    /\ pc = "scan"
    /\ pc' = "scanned"
    /\ cache_no_prefetch' = load_block(cache_no_prefetch, address)
    /\ last' = [op |-> "load", address |-> address]
    /\ UNCHANGED << err, args, policy, associativity, cache_prefetch,
                    pos, nacc, nwrites >>

ScanNext == \E address \in Addresses : ScanLoad(address)

ScanSpec == ScanInit /\ [][ScanNext]_vars

\* ------------------------------------------------- one geometry, long traces
\* main's read-evaluate loop from the state lines 258-320 leave for the command
\* line `cachesim 4 assoc:2 <policy> 1 <trace>`: two sets of two one-byte
\* lines.  The trace holds up to DeepTrace R records over addresses
\* 0 .. DeepAddr.
DeepArgs ==
    { [ cache_size |-> 4, assoc_str |-> [kind |-> "assoc:", n |-> 2],
        policy_str |-> p, block_size |-> 1 ] : p \in { "fifo", "lru" } }

DeepInit ==
    /\ pc = "loop"
    /\ err = ""
    /\ args \in DeepArgs
    /\ policy = IF args.policy_str = "fifo" THEN POLICY_FIFO ELSE POLICY_LRU
    /\ associativity = args.assoc_str.n
    /\ cache_no_prefetch =
          create_cache(args.cache_size, associativity, args.block_size, policy)
    /\ cache_prefetch =
          create_cache(args.cache_size, associativity, args.block_size, policy)
    /\ pos = 0
    /\ nacc = 0
    /\ nwrites = 0
    /\ last = NoRecord

\* main, lines 331-333: an R record.
DeepReadRecord(address) ==
    /\ pc = "loop" /\ pos < DeepTrace
    /\ cache_no_prefetch' = simulate_read(Fresh(cache_no_prefetch), address, 0)
    /\ cache_prefetch' = simulate_read(Fresh(cache_prefetch), address, 1)
    /\ pos' = pos + 1
    /\ nacc' = nacc + 1
    /\ last' = [op |-> "R", address |-> address]
    /\ UNCHANGED << pc, err, args, policy, associativity, nwrites >>

DeepNext == \E address \in 0 .. DeepAddr : DeepReadRecord(address)

DeepSpec == DeepInit /\ [][DeepNext]_vars

\* ================================================================ claims
\* The properties below speak of runs whose caches have at least one set
\* (HasSets); a cache with sets_num = 0 has no defined access behaviour.

IsAccess(record) == record.op \in { "R", "W" }

ValidLines(set) == { i \in DOMAIN set : set[i].valid # 0 }

\* The block of `address` is resident in `cache`.
Resident(cache, address) == find_line(cache, address) # -1

NextBlockAddress(cache, address) ==
    Shl(get_block_id(cache, address) + 1, cache.block_bits)

\* The last trace record was an access that hit (made no load) in `cache`.
LastWasHit(cache) == IsAccess(last) /\ cache.loads = << >>

\* ---------------------------------------------------------------- C1
\* C1 as stated: after the same trace, the no-prefetch and the prefetch
\* instance have equal hits and equal misses.
C1_SameHitsAndMisses ==
    HasSets =>
        /\ cache_prefetch.hits = cache_no_prefetch.hits
        /\ cache_prefetch.misses = cache_no_prefetch.misses

\* C1 amended: the two instances always agree on hits + misses (the number
\* of demand accesses); hits and misses taken singly may differ, because a
\* prefetched block changes what later accesses find.
C1_SameHitsPlusMisses ==
    HasSets =>
        cache_prefetch.hits + cache_prefetch.misses
            = cache_no_prefetch.hits + cache_no_prefetch.misses

C1_Witness ==
    /\ HasSets
    /\ cache_prefetch.hits > cache_no_prefetch.hits
    /\ cache_prefetch.misses < cache_no_prefetch.misses

\* ---------------------------------------------------------------- C2
NoDuplicateTags(cache) ==
    \A s \in DOMAIN cache.lines :
        \A i, j \in ValidLines(cache.lines[s]) :
            i # j => cache.lines[s][i].tag # cache.lines[s][j].tag

\* C2: in every reachable state no set of either instance holds two valid
\* lines with the same tag.
C2_TagsUniquePerSet ==
    HasSets =>
        NoDuplicateTags(cache_no_prefetch) /\ NoDuplicateTags(cache_prefetch)

\* A demand miss whose next block was already resident, in a set that holds
\* at least two valid lines: the prefetch lookup is what kept the tag single.
C2_Witness ==
    /\ HasSets
    /\ Len(cache_prefetch.loads) = 1
    /\ Resident(cache_prefetch, NextBlockAddress(cache_prefetch, last.address))
    /\ \E s \in DOMAIN cache_prefetch.lines :
          Cardinality(ValidLines(cache_prefetch.lines[s])) >= 2

\* ---------------------------------------------------------------- C3
IsWriteMiss(cache) == nwrites' = nwrites + 1 /\ ~Resident(cache, last'.address)

\* C3 as stated: a write miss adds exactly one to memory_reads and exactly
\* one to memory_writes, in both instances.
C3_WriteMissOneReadOneWrite ==
    [][ /\ IsWriteMiss(cache_no_prefetch) =>
              /\ cache_no_prefetch'.reads = cache_no_prefetch.reads + 1
              /\ cache_no_prefetch'.writes = cache_no_prefetch.writes + 1
        /\ IsWriteMiss(cache_prefetch) =>
              /\ cache_prefetch'.reads = cache_prefetch.reads + 1
              /\ cache_prefetch'.writes = cache_prefetch.writes + 1 ]_vars

\* C3 amended: a write miss adds exactly one to memory_writes in both
\* instances; it adds exactly one to memory_reads with prefetch disabled, and
\* with prefetch enabled one for the demand fetch plus one more exactly when
\* the next block is not resident after the demand load (the prefetch load).
C3_WriteMissTraffic ==
    [][ /\ IsWriteMiss(cache_no_prefetch) =>
              /\ cache_no_prefetch'.reads = cache_no_prefetch.reads + 1
              /\ cache_no_prefetch'.writes = cache_no_prefetch.writes + 1
        /\ IsWriteMiss(cache_prefetch) =>
              /\ cache_prefetch'.writes = cache_prefetch.writes + 1
              /\ cache_prefetch'.reads = cache_prefetch.reads +
                    (IF Resident(load_block(cache_prefetch, last'.address),
                                 NextBlockAddress(cache_prefetch, last'.address))
                     THEN 1 ELSE 2) ]_vars

\* A write that missed in both instances and prefetched in the second.
C3_Witness ==
    /\ HasSets
    /\ last.op = "W"
    /\ Len(cache_no_prefetch.loads) = 1
    /\ Len(cache_prefetch.loads) = 2
    /\ cache_prefetch.reads = cache_no_prefetch.reads + 1

\* ---------------------------------------------------------------- C4
Counters(cache) == << cache.hits, cache.misses, cache.reads, cache.writes >>

CountsOneAccess(cache, cacheNext) ==
    \/ cacheNext.hits = cache.hits + 1 /\ cacheNext.misses = cache.misses
    \/ cacheNext.hits = cache.hits /\ cacheNext.misses = cache.misses + 1

NeverDecreases(cache, cacheNext) ==
    \A k \in 1 .. 4 : Counters(cacheNext)[k] >= Counters(cache)[k]

\* C4: in each instance hits + misses equals the number of demand accesses
\* processed; every access adds one to exactly one of hits and misses
\* (prefetch loads add to neither); no counter ever decreases.
C4_HitsPlusMissesCountAccesses ==
    [][ HasSets /\ HasSets' =>
          /\ cache_no_prefetch'.hits + cache_no_prefetch'.misses = nacc'
          /\ cache_prefetch'.hits + cache_prefetch'.misses = nacc'
          /\ nacc' = nacc + 1 =>
                /\ CountsOneAccess(cache_no_prefetch, cache_no_prefetch')
                /\ CountsOneAccess(cache_prefetch, cache_prefetch')
          /\ nacc' = nacc =>
                /\ Counters(cache_no_prefetch') = Counters(cache_no_prefetch)
                /\ Counters(cache_prefetch') = Counters(cache_prefetch)
          /\ NeverDecreases(cache_no_prefetch, cache_no_prefetch')
          /\ NeverDecreases(cache_prefetch, cache_prefetch') ]_vars

\* Hits and misses both counted, and the last access made a prefetch load.
C4_Witness ==
    /\ HasSets
    /\ nacc = MaxTrace
    /\ cache_prefetch.hits >= 1
    /\ cache_prefetch.misses >= 1
    /\ Len(cache_prefetch.loads) = 2

\* ---------------------------------------------------------------- C5
Last(seq) == seq[Len(seq)]

ToSet(seq) == { seq[k] : k \in DOMAIN seq }

\* Line L of set s is valid with age 0 and every other valid line is older.
Youngest(cache, s, L) ==
    /\ cache.lines[s][L].valid # 0
    /\ cache.lines[s][L].age = 0
    /\ \A i \in ValidLines(cache.lines[s]) \ { L } : cache.lines[s][i].age > 0

NotVictim(cache, s, L) == cache.set_lines >= 2 => replace_idx(cache, s) # L

LruSets(cache) ==
    IF cache.policy = POLICY_LRU
    THEN { s \in DOMAIN cache.lines : cache.hit_since[s] # << >> }
    ELSE { }

\* C5 as stated: under LRU, right after a hit on line L, L has age 0 and is
\* strictly the youngest valid line of its set; and the next insertion into
\* the set, whenever it comes, does not choose a line that was hit.
HitLinesNeverNextVictim(cache) ==
    \A s \in LruSets(cache) :
        /\ Youngest(cache, s, Last(cache.hit_since[s]))
        /\ \A L \in ToSet(cache.hit_since[s]) : NotVictim(cache, s, L)

C5_HitLineNeverNextVictim ==
    HasSets =>
        /\ HitLinesNeverNextVictim(cache_no_prefetch)
        /\ HitLinesNeverNextVictim(cache_prefetch)

\* C5 amended: under LRU, after a hit on line L and until another line of the
\* set is hit or a block is inserted into the set, L has age 0, every other
\* valid line of the set has a larger age, and (with two or more lines per
\* set) an insertion into the set does not choose L.
LastHitLineIsYoungest(cache) ==
    \A s \in LruSets(cache) :
        /\ Youngest(cache, s, Last(cache.hit_since[s]))
        /\ NotVictim(cache, s, Last(cache.hit_since[s]))

C5_LruHitLineIsYoungest ==
    HasSets =>
        /\ LastHitLineIsYoungest(cache_no_prefetch)
        /\ LastHitLineIsYoungest(cache_prefetch)

\* An LRU hit on the oldest-filled line of a full set with several lines:
\* by fill order that line would be the next victim.
C5_Witness ==
    /\ HasSets
    /\ cache_no_prefetch.policy = POLICY_LRU
    /\ cache_no_prefetch.set_lines >= 2
    /\ \E s \in LruSets(cache_no_prefetch) :
          /\ SetFull(cache_no_prefetch.lines[s])
          /\ Head(cache_no_prefetch.order[s])
                = Last(cache_no_prefetch.hit_since[s])

\* ---------------------------------------------------------------- C6
IsHit(cache) == nacc' = nacc + 1 /\ Resident(cache, last'.address)

EvictsOldest(cache) ==
    \A k \in DOMAIN cache.loads :
        cache.loads[k].full => cache.loads[k].idx = cache.loads[k].oldest

\* C6: under FIFO a hit changes no line (valid, tag, age) of any set, and an
\* insertion into a full set evicts the line that was filled earliest among
\* the lines of that set.
C6_FifoHitsKeepEvictionOrder ==
    [][ (HasSets /\ HasSets' /\ policy = POLICY_FIFO) =>
          /\ IsHit(cache_no_prefetch) =>
                cache_no_prefetch'.lines = cache_no_prefetch.lines
          /\ IsHit(cache_prefetch) =>
                cache_prefetch'.lines = cache_prefetch.lines
          /\ EvictsOldest(cache_no_prefetch')
          /\ EvictsOldest(cache_prefetch') ]_vars

\* FIFO, one set of several lines: after a hit, an insertion into the full
\* set evicted a line.
C6_Witness ==
    /\ HasSets
    /\ policy = POLICY_FIFO
    /\ cache_prefetch.sets_num = 1
    /\ cache_prefetch.set_lines >= 2
    /\ cache_prefetch.hits >= 1
    /\ \E k \in DOMAIN cache_prefetch.loads : cache_prefetch.loads[k].full

\* ---------------------------------------------------------------- C7
SameBlocks(cache, cacheNext) ==
    \A s \in DOMAIN cache.lines : \A i \in DOMAIN cache.lines[s] :
        /\ cacheNext.lines[s][i].valid = cache.lines[s][i].valid
        /\ cacheNext.lines[s][i].tag = cache.lines[s][i].tag

HitTraffic(cache, cacheNext) ==
    /\ cacheNext.reads = cache.reads
    /\ cacheNext.writes = cache.writes + (IF last'.op = "W" THEN 1 ELSE 0)
    /\ cacheNext.misses = cache.misses
    /\ cacheNext.loads = << >>
    /\ SameBlocks(cache, cacheNext)

\* C7: a hit fetches nothing: a write hit adds one to memory_writes and none
\* to memory_reads, a read hit adds to neither; misses is unchanged and no
\* block is loaded (no prefetch), in both instances.
C7_HitMakesNoFetch ==
    [][ /\ IsHit(cache_no_prefetch) =>
              HitTraffic(cache_no_prefetch, cache_no_prefetch')
        /\ IsHit(cache_prefetch) =>
              HitTraffic(cache_prefetch, cache_prefetch') ]_vars

\* A write hit with prefetch enabled while the next block is not resident.
C7_Witness ==
    /\ HasSets
    /\ last.op = "W"
    /\ LastWasHit(cache_prefetch)
    /\ ~Resident(cache_prefetch, NextBlockAddress(cache_prefetch, last.address))

\* ---------------------------------------------------------------- C8
FirstAccessIsRead == nacc = 1 /\ last.op = "R"

\* C8: the first read of any address on a freshly constructed cache gives
\* hits 0, misses 1, memory_writes 0, and memory_reads 2 with prefetch enabled
\* but 1 with prefetch disabled.
C8_FirstReadCounters ==
    (HasSets /\ FirstAccessIsRead) =>
        /\ Counters(cache_prefetch) = << 0, 1, 2, 0 >>
        /\ Counters(cache_no_prefetch) = << 0, 1, 1, 0 >>

\* The scenario: cachesim 32 direct <policy> 4, one read of address 0x0.
C8_Witness ==
    /\ HasSets
    /\ FirstAccessIsRead
    /\ args.cache_size = 32 /\ args.block_size = 4
    /\ cache_prefetch.set_lines = 1
    /\ last.address = 0

\* ---------------------------------------------------------------- C9
RoundTrip(cache, a) ==
    LET tag == get_tag(cache, a)
        set_index == get_set_index(cache, a)
        offset == a % cache.block_size
    IN  /\ set_index < cache.sets_num
        /\ set_index < Shl(1, cache.set_bits)
        /\ offset < Shl(1, cache.block_bits)
        /\ cache.set_bits = 0 => set_index = 0
        /\ Shl(tag, cache.block_bits + cache.set_bits)
              + Shl(set_index, cache.block_bits) + offset = a

\* The trace addresses, and every address up to the lowest tag bit.
FieldAddresses(cache) ==
    Addresses \cup (0 .. Shl(1, cache.block_bits + cache.set_bits + 1) - 1)

\* C9: for every address and every constructed geometry, putting tag, set
\* index and block offset back at their bit positions gives the address, and
\* the set index is below sets_num (0 when set_bits = 0).  The three fields
\* occupy disjoint bit ranges, so the sum is the bitwise or.
C9_AddressRoundTrip ==
    HasSets =>
        \A a \in FieldAddresses(cache_no_prefetch) :
            RoundTrip(cache_no_prefetch, a)

\* A geometry with offset bits and index bits, and addresses that exercise
\* each field.
C9_Witness ==
    /\ HasSets
    /\ cache_no_prefetch.block_bits > 0
    /\ cache_no_prefetch.set_bits > 0
    /\ \E a \in FieldAddresses(cache_no_prefetch) :
          /\ get_tag(cache_no_prefetch, a) > 0
          /\ get_set_index(cache_no_prefetch, a) > 0
          /\ a % cache_no_prefetch.block_size > 0

\* --------------------------------------------------------------- C10
\* The geometry main hands to create_cache is invalid: a size that is not a
\* power of two, or an associativity that does not fit capacity / block size.
InvalidGeometry ==
    \/ ~is_power_of_two(args.cache_size)
    \/ ~is_power_of_two(args.block_size)
    \/ /\ associativity >= 0
       /\ \/ associativity * args.block_size = 0
          \/ associativity * args.block_size > args.cache_size
          \/ args.cache_size % (associativity * args.block_size) # 0

\* C10: with an invalid geometry no storage is ever allocated and no access
\* is ever simulated: the run can only end in the configuration error.
C10_InvalidGeometryRejected ==
    InvalidGeometry =>
        /\ cache_no_prefetch = NULL
        /\ cache_prefetch = NULL
        /\ pc \in { "parse", "policy", "assoc", "create", "exit1" }
        /\ pc = "exit1" => err # "malloc failed"


\* --------------------------------------------------------------- C11
SimState(cache) == << cache.lines, Counters(cache) >>

\* C11: a malformed record changes neither the lines nor the counters of
\* either instance and the loop goes on; only an R or W record read before
\* the #eof record changes them; after the #eof record nothing is simulated.
C11_OnlyWellFormedRecordsSimulate ==
    [][ (pc \in { "loop", "done" } /\ pc' \in { "loop", "done" }) =>
          /\ (pos' = pos + 1 /\ last'.op = "malformed") =>
                /\ pc' = "loop"
                /\ SimState(cache_no_prefetch') = SimState(cache_no_prefetch)
                /\ SimState(cache_prefetch') = SimState(cache_prefetch)
          /\ last.op = "#eof" =>
                /\ nacc' = nacc
                /\ SimState(cache_no_prefetch') = SimState(cache_no_prefetch)
                /\ SimState(cache_prefetch') = SimState(cache_prefetch)
          /\ ( \/ SimState(cache_no_prefetch') # SimState(cache_no_prefetch)
               \/ SimState(cache_prefetch') # SimState(cache_prefetch) ) =>
                /\ IsAccess(last')
                /\ nacc' = nacc + 1
                /\ pc = "loop" ]_vars

\* A malformed record read after accesses have filled lines, the loop still
\* running.
C11_Witness ==
    /\ HasSets
    /\ pc = "loop"
    /\ last.op = "malformed"
    /\ cache_prefetch.misses >= 1
    /\ cache_prefetch.hits >= 1


\* --------------------------------------------------------------- C12
MaxAgeOf(set) ==
    CHOOSE a \in { set[i].age : i \in DOMAIN set } :
        \A i \in DOMAIN set : set[i].age <= a

OldestLines(set) == { i \in DOMAIN set : set[i].age = MaxAgeOf(set) }

LowestOf(S) == CHOOSE i \in S : \A j \in S : i <= j

HighestOf(S) == CHOOSE i \in S : \A j \in S : i >= j

InvalidLines(set) == DOMAIN set \ ValidLines(set)

KeepsValidLines(e) ==
    \A i \in ValidLines(e.before[e.set]) :
        /\ e.after[e.set][i].valid # 0
        /\ e.after[e.set][i].tag = e.before[e.set][i].tag

FillsFirstInvalidLine(cache) ==
    \A k \in DOMAIN cache.loads :
        LET e == cache.loads[k] IN
        ~e.full =>
            /\ e.idx = LowestOf(InvalidLines(e.before[e.set]))
            /\ KeepsValidLines(e)

\* C13: an insertion into a set that has an invalid line puts the block in
\* the lowest-indexed invalid line, and every line that was valid stays valid
\* with its tag.
C13_InvalidLineBeforeEviction ==
    HasSets =>
        /\ FillsFirstInvalidLine(cache_no_prefetch)
        /\ FillsFirstInvalidLine(cache_prefetch)

\* A prefetch load into a set with a valid line and two or more invalid lines.
C13_Witness ==
    /\ HasSets
    /\ Len(cache_prefetch.loads) = 2
    /\ LET e == cache_prefetch.loads[2] IN
       /\ Cardinality(InvalidLines(e.before[e.set])) >= 2
       /\ ValidLines(e.before[e.set]) # { }

\* --------------------------------------------------------------- C14
\* The address of the k-th load_block call made for the last record.
LoadedAddress(cache, k) ==
    IF k = 1 THEN last.address ELSE NextBlockAddress(cache, last.address)

InsertionEffect(cache, k) ==
    LET e == cache.loads[k]
        a == LoadedAddress(cache, k)
    IN  /\ e.set = get_set_index(cache, a)
        /\ e.idx \in DOMAIN e.before[e.set]
        /\ e.after[e.set][e.idx] =
              [valid |-> 1, tag |-> get_tag(cache, a), age |-> 0]
        /\ \A i \in DOMAIN e.before[e.set] \ { e.idx } :
              IF e.before[e.set][i].valid # 0
              THEN e.after[e.set][i] =
                      [e.before[e.set][i] EXCEPT !.age = @ + 1]
              ELSE e.after[e.set][i] = e.before[e.set][i]
        /\ \A s \in DOMAIN e.before \ { e.set } : e.after[s] = e.before[s]

\* The recorded calls are the calls that produced the cache's lines.
LoadsChain(cache) ==
    /\ Len(cache.loads) >= 1 => cache.lines = cache.loads[Len(cache.loads)].after
    /\ Len(cache.loads) >= 2 => cache.loads[2].before = cache.loads[1].after

AllInsertionEffects(cache) ==
    /\ \A k \in DOMAIN cache.loads : InsertionEffect(cache, k)
    /\ LoadsChain(cache)

\* C14: after any insertion the chosen line is valid with the tag of the
\* loaded address and age 0; every other valid line of the set has its age
\* raised by one and its tag unchanged; invalid lines of the set and all
\* lines of the other sets are unchanged.
C14_InsertionEffect ==
    (HasSets /\ IsAccess(last)) =>
        /\ AllInsertionEffects(cache_no_prefetch)
        /\ AllInsertionEffects(cache_prefetch)

\* A prefetch load that evicted from a full set of several lines, in a cache
\* with several sets.
C14_Witness ==
    /\ HasSets
    /\ IsAccess(last)
    /\ cache_prefetch.sets_num >= 2
    /\ cache_prefetch.set_lines >= 2
    /\ Len(cache_prefetch.loads) = 2
    /\ cache_prefetch.loads[2].full


\* --------------------------------------------------------------- C15
IsMiss(cache) == nacc' = nacc + 1 /\ ~Resident(cache, last'.address)

\* `cache` with the lines array the demand load of this step left.
AfterDemandLoad(cache, cacheNext) ==
    [cache EXCEPT !.lines = cacheNext.loads[1].after]

\* C15: on a demand miss with prefetching enabled, if the next block is
\* resident once the demanded block is loaded, the prefetch step does nothing:
\* the lines are those the demand load left (valid, tag and age, LRU
\* included) and the counters moved by the demand miss alone.
C15_PrefetchOfPresentBlockIsNoOp ==
    [][ ( /\ IsMiss(cache_prefetch)
          /\ Resident(AfterDemandLoad(cache_prefetch, cache_prefetch'),
                      NextBlockAddress(cache_prefetch, last'.address)) ) =>
          /\ Len(cache_prefetch'.loads) = 1
          /\ cache_prefetch'.lines = cache_prefetch'.loads[1].after
          /\ cache_prefetch'.hits = cache_prefetch.hits
          /\ cache_prefetch'.misses = cache_prefetch.misses + 1
          /\ cache_prefetch'.reads = cache_prefetch.reads + 1
          /\ cache_prefetch'.writes = cache_prefetch.writes
                + (IF last'.op = "W" THEN 1 ELSE 0) ]_vars

\* Under LRU, a demand miss whose next block was resident in a set that holds
\* other valid lines.
C15_Witness ==
    /\ HasSets
    /\ IsAccess(last)
    /\ cache_prefetch.policy = POLICY_LRU
    /\ Len(cache_prefetch.loads) = 1
    /\ LET next == NextBlockAddress(cache_prefetch, last.address)
           s == get_set_index(cache_prefetch, next)
       IN  /\ Resident(cache_prefetch, next)
           /\ Cardinality(ValidLines(cache_prefetch.lines[s])) >= 2
           /\ cache_prefetch.lines[s][find_line(cache_prefetch, next)].age > 0


\* --------------------------------------------------------------- C16
\* The k-th load of this step loaded the block of address a.
LoadedBlockOf(cache, cacheNext, k, a) ==
    /\ cacheNext.loads[k].set = get_set_index(cache, a)
    /\ cacheNext.loads[k].tag = get_tag(cache, a)

LoadsOfOneAccess(cache, cacheNext, prefetch) ==
    LET n == Len(cacheNext.loads)
        a == last'.address
    IN  /\ n <= (IF prefetch # 0 THEN 2 ELSE 1)
        /\ cacheNext.reads = cache.reads + n
        /\ Resident(cache, a) => n = 0
        /\ n >= 1 => LoadedBlockOf(cache, cacheNext, 1, a)
        /\ n = 2 => LoadedBlockOf(cache, cacheNext, 2,
                                  NextBlockAddress(cache, a))

\* C16: one demand access makes at most two loads, the demanded block and
\* then the block after it, and adds one to memory_reads per load; a hit makes
\* none, so a prefetch load happens only after the demand load of a miss and
\* is never followed by a further load; steps that are not accesses load
\* nothing.
C16_PrefetchNeverChains ==
    [][ (HasSets /\ HasSets') =>
          /\ nacc' = nacc + 1 =>
                /\ LoadsOfOneAccess(cache_no_prefetch, cache_no_prefetch', 0)
                /\ LoadsOfOneAccess(cache_prefetch, cache_prefetch', 1)
          /\ nacc' = nacc =>
                /\ cache_no_prefetch'.lines = cache_no_prefetch.lines
                /\ cache_prefetch'.lines = cache_prefetch.lines
                /\ cache_no_prefetch'.reads = cache_no_prefetch.reads
                /\ cache_prefetch'.reads = cache_prefetch.reads ]_vars

\* A prefetch load was made and the block after the prefetched one is absent.
C16_Witness ==
    /\ HasSets
    /\ IsAccess(last)
    /\ Len(cache_prefetch.loads) = 2
    /\ ~Resident(cache_prefetch,
                 Shl(get_block_id(cache_prefetch, last.address) + 2,
                     cache_prefetch.block_bits))


\* --------------------------------------------------------------- C17
\* C17 as stated: memory_reads of the prefetch instance is never below
\* memory_reads of the no-prefetch instance.
C17_PrefetchNeverLowersReads ==
    cache_prefetch.reads >= cache_no_prefetch.reads

\* C17, amended: without prefetch memory_reads equals misses; with prefetch
\* it lies between misses and twice misses.  So the prefetch instance reads
\* at least as much as the no-prefetch one whenever it misses at least as
\* often, and it can read less only when prefetching removed misses.
C17_ReadsBoundedByMisses ==
    /\ cache_no_prefetch.reads = cache_no_prefetch.misses
    /\ cache_prefetch.reads >= cache_prefetch.misses
    /\ cache_prefetch.reads <= 2 * cache_prefetch.misses
    /\ cache_prefetch.misses >= cache_no_prefetch.misses =>
          cache_prefetch.reads >= cache_no_prefetch.reads

\* Prefetching removed misses and the prefetch instance read less.
C17_Witness ==
    /\ cache_prefetch.misses < cache_no_prefetch.misses
    /\ cache_prefetch.reads < cache_no_prefetch.reads
    /\ cache_prefetch.reads > cache_prefetch.misses


\* --------------------------------------------------------------- C18
\* C18: in each instance memory_writes equals the number of W records
\* processed so far (reads and prefetches add none), so the two instances
\* always report the same memory_writes.
C18_WritesCountWriteAccesses ==
    HasSets =>
        /\ cache_no_prefetch.writes = nwrites
        /\ cache_prefetch.writes = nwrites
        /\ cache_no_prefetch.writes = cache_prefetch.writes

\* A write hit after a write miss (which prefetched) and a read.
C18_Witness ==
    /\ HasSets
    /\ last.op = "W"
    /\ LastWasHit(cache_prefetch)
    /\ nwrites >= 2
    /\ nacc > nwrites
    /\ cache_prefetch.reads > cache_prefetch.misses
    /\ cache_prefetch.misses > nacc - nwrites

\* --------------------------------------------------------------- C19
SingleLine(cache) == cache.sets_num = 1 /\ cache.set_lines = 1

\* C19 as stated: after every access the accessed block is resident, in both
\* instances and for every geometry.
C19_AccessedBlockResident ==
    (HasSets /\ IsAccess(last)) =>
        /\ Resident(cache_no_prefetch, last.address)
        /\ Resident(cache_prefetch, last.address)

\* C19, amended: after every access the accessed block is resident in the
\* no-prefetch instance, and in the prefetch instance unless the cache has a
\* single line; there a miss leaves the prefetched next block in the line and
\* the accessed block evicted.
C19_AccessedBlockResidentUnlessSingleLine ==
    (HasSets /\ IsAccess(last)) =>
        /\ Resident(cache_no_prefetch, last.address)
        /\ ~SingleLine(cache_prefetch) =>
              Resident(cache_prefetch, last.address)
        /\ (SingleLine(cache_prefetch) /\ cache_prefetch.loads # << >>) =>
              /\ ~Resident(cache_prefetch, last.address)
              /\ Resident(cache_prefetch,
                          NextBlockAddress(cache_prefetch, last.address))
        /\ (SingleLine(cache_prefetch) /\ cache_prefetch.loads = << >>) =>
              Resident(cache_prefetch, last.address)

\* A miss whose prefetch went into the set of the demanded block, whose other
\* lines were all valid, and left the demanded block alone.
C19_Witness ==
    /\ HasSets
    /\ IsAccess(last)
    /\ ~SingleLine(cache_prefetch)
    /\ Len(cache_prefetch.loads) = 2
    /\ cache_prefetch.loads[2].set = cache_prefetch.loads[1].set
    /\ cache_prefetch.loads[2].full
    /\ Resident(cache_prefetch, last.address)

\* --------------------------------------------------------------- C20
\* The valid lines of the set have pairwise distinct ages, and one of them
\* has age 0 if there is any.
DistinctAges(set) ==
    /\ \A i, j \in ValidLines(set) : set[i].age = set[j].age => i = j
    /\ ValidLines(set) # {} =>
          Cardinality({ i \in ValidLines(set) : set[i].age = 0 }) = 1

DistinctAgesIn(lines) == \A s \in DOMAIN lines : DistinctAges(lines[s])

AgesOf(cache) ==
    /\ DistinctAgesIn(cache.lines)
    /\ \A k \in DOMAIN cache.loads :
          LET e == cache.loads[k] IN
          /\ DistinctAgesIn(e.before)
          /\ DistinctAgesIn(e.after)
          /\ e.full => OldestLines(e.before[e.set]) = { e.idx }

\* C20: in every state main reaches, under FIFO and LRU, the valid lines of a
\* set have pairwise distinct ages and exactly one has age 0 if any is valid;
\* this holds between the loads of one access too, and every eviction from a
\* full set finds exactly one line of maximum age.
C20_AgesDistinctPerSet ==
    HasSets => AgesOf(cache_no_prefetch) /\ AgesOf(cache_prefetch)

\* Under LRU a hit has re-aged a full set of at least two lines after an
\* eviction from it.
C20_Witness ==
    /\ HasSets
    /\ policy = POLICY_LRU
    /\ LastWasHit(cache_no_prefetch)
    /\ LET set == cache_no_prefetch.lines[
                     get_set_index(cache_no_prefetch, last.address)]
       IN  /\ Cardinality(ValidLines(set)) >= 2
           /\ set[find_line(cache_no_prefetch, last.address)].age = 0
           /\ \E i \in ValidLines(set) : set[i].age >= 2

====
